---- MODULE Spec2Model ----
(***************************************************************************)
(* LLC energy / ED^2P estimation scripts of miniMXE.                       *)
(*                                                                         *)
(* Units.  The scripts compute in floating point (nJ, W, s).  The model    *)
(* computes the same quantities exactly, in integers:                      *)
(*   event energies  pJ   (0.565 nJ = 565 pJ;  sim.cfg stores pJ)          *)
(*   leakage power   mW   (3.438 W  = 3438 mW; sim.cfg stores mW)          *)
(*   time            ns   (sim.out "Time (ns)")                            *)
(*   energy          pJ   (mW * ns = pJ)                                   *)
(*   ED^2P           pJ*ns^2                                               *)
(* An optional value (Python's None, or float('nan') for a float) is a     *)
(* sequence: None / NaN is the empty sequence, a present value v is <<v>>. *)
(***************************************************************************)
EXTENDS Integers, Sequences, FiniteSets, TLC

VARIABLES
    rIn,        \* reconcile_hits_for_energy: the store record passed in
    rOut,       \* reconcile_hits_for_energy: None before the call, then <<(RH_use, WH_use, gap)>>
    version,    \* main: the script run, "v3" (energy_ed2p_v3.py) or "v4"
    runs,       \* main: the two run directories, by technology
    pc,         \* main: the statement main has reached
    outDir,     \* main: whether the output directory exists
    energyCsv,  \* main: rows of energy_bounds.csv (None: no such file)
    summaryCsv, \* main: rows of summary.csv (None: no such file)
    loc,        \* main: its locals, by technology, once computed
    cFiles,     \* resolver: the configuration files of the run directory
    cTech,      \* resolver: the technology
    cOut,       \* resolver: None before the call, then the constants used
    cCalls,     \* resolver: what each parse_llc_energy_consts call returned
    cache,      \* load_data: _cache (None: empty)
    disk,       \* load_data: version of the CSVs in each results directory
    lastCall,   \* load_data: arguments of the latest call
    lastRet,    \* load_data: what the latest call returned
    dbFile,     \* store reader: rows of sim.stats.sqlite3 (None: no such file)
    dbOut,      \* store reader: None before the call, then <<what it returned>>
    eIn,        \* energy math: the function called and its arguments
    eOut,       \* energy math: None before the call, then <<what it returned>>
    eEd,        \* energy math: None, then <<the ED2P computed from the result>>
    csvFile,    \* write_csv_rows: lines of the file at path (None: no such file)
    lastWrite,  \* write_csv_rows: arguments of the latest call (None: no call yet)
    hCfg,       \* parse_llc_hit_cycles: the cycle costs sim.cfg configures
    hOut,       \* parse_llc_hit_cycles: None before the call, then <<(rd, wr)>>
    simOut,     \* parse_simout_full: the lines of the sim.out text
    simParsed   \* parse_simout_full: None before the call, then <<its L3 fields>>

recVars == <<rIn, rOut>>
mainVars == <<version, runs, pc, outDir, energyCsv, summaryCsv, loc>>
constVars == <<cFiles, cTech, cOut, cCalls>>
cacheVars == <<cache, disk, lastCall, lastRet>>
storeVars == <<dbFile, dbOut>>
mathVars == <<eIn, eOut, eEd>>
csvVars == <<csvFile, lastWrite>>
cycVars == <<hCfg, hOut>>
repVars == <<simOut, simParsed>>
\* What each operation's specification leaves alone.
notRec == <<mainVars, constVars, cacheVars, storeVars,
            mathVars, csvVars, cycVars, repVars>>
notMain == <<recVars, constVars, cacheVars, storeVars,
             mathVars, csvVars, cycVars, repVars>>
notConst == <<recVars, mainVars, cacheVars, storeVars,
              mathVars, csvVars, cycVars, repVars>>
notCache == <<recVars, mainVars, constVars, storeVars,
              mathVars, csvVars, cycVars, repVars>>
notStore == <<recVars, mainVars, constVars, cacheVars,
              mathVars, csvVars, cycVars, repVars>>
notMath == <<recVars, mainVars, constVars, cacheVars,
             storeVars, csvVars, cycVars, repVars>>
notCsv == <<recVars, mainVars, constVars, cacheVars,
            storeVars, mathVars, cycVars, repVars>>
\* parse_llc_hit_cycles reads the store as well as sim.cfg.
notCyc == <<recVars, mainVars, constVars, cacheVars, mathVars, csvVars, repVars>>
notRep == <<recVars, mainVars, constVars, cacheVars, storeVars,
            mathVars, csvVars, cycVars>>
vars == <<rIn, rOut, version, runs, pc, outDir, energyCsv, summaryCsv, loc,
          cFiles, cTech, cOut, cCalls, cache, disk, lastCall, lastRet,
          dbFile, dbOut, eIn, eOut, eEd, csvFile, lastWrite, hCfg, hOut,
          simOut, simParsed>>

None == <<>>
Some(v) == <<v>>
Val(o) == o[1]

(***************************************************************************)
(* Bounds of the model.                                                    *)
(***************************************************************************)
MaxAcc == 6
MaxHit == 4
MaxUp == 3

Max(a, b) == IF a >= b THEN a ELSE b
Min(a, b) == IF a <= b THEN a ELSE b

\* Python 3 round(n/d) for n >= 0, d > 0: nearest integer, ties to even.
Round(n, d) ==
    LET q == n \div d
        twice == 2 * (n % d)
    IN  IF twice < d THEN q
        ELSE IF twice > d THEN q + 1
        ELSE IF q % 2 = 0 THEN q ELSE q + 1

(***************************************************************************)
(* Hit reconciliation (energy_ed2p_v3.py)                                  *)
(***************************************************************************)
\* The record read_llc_exact_from_db returns, restricted to the fields the
\* energy computation reads.
DbRecord(A, M, RH, WH, up) ==
    [A_db |-> A, M_db |-> M, RH |-> RH, WH |-> WH, coh_upgrades |-> up,
     hits_prefetch |-> 0]

\* Scenario A of the specification.
ScenarioA == DbRecord(1000, 100, 700, 150, 50)

DbDomain ==
    { DbRecord(A, M, RH, WH, up) :
        A \in 0..MaxAcc, M \in 0..MaxAcc, RH \in 0..MaxHit, WH \in 0..MaxHit,
        up \in 0..MaxUp }
    \cup {ScenarioA}

DbOrNone == {None} \cup { Some(d) : d \in DbDomain }

\* ReconcileGap with the upgrades' share of the gap booked as read hits.
ReconcileGap_ToReads(RHc, WHc, H_tot, gap, up) ==
    LET counted == RHc + WHc
        add_w == Min(gap, up)
        rem == gap - add_w
        RH_use == IF rem > 0
                  THEN RHc + add_w
                       + (IF counted > 0 THEN Round(rem * RHc, counted)
                                         ELSE Round(rem, 2))
                  ELSE RHc + add_w
        WH_use == IF rem > 0 THEN H_tot - RH_use ELSE WHc
    IN  <<RH_use, WH_use, gap>>

\* ReconcileGap with the remainder always split 50/50.
ReconcileGap_HalfSplit(RHc, WHc, H_tot, gap, up) ==
    LET add_w == Min(gap, up)
        rem == gap - add_w
        RH_use == IF rem > 0 THEN RHc + Round(rem, 2) ELSE RHc
        WH_use == IF rem > 0 THEN H_tot - RH_use ELSE WHc + add_w
    IN  <<RH_use, WH_use, gap>>

\* ReconcileGap with the remainder beyond the upgrades left unallocated.
ReconcileGap_DropRemainder(RHc, WHc, H_tot, gap, up) ==
    <<RHc, WHc + Min(gap, up), gap>>

\* The gap-closing branch when the gap is positive.
ReconcileGap(RHc, WHc, H_tot, gap, up) ==
    LET counted == RHc + WHc
        add_w == Min(gap, up)
        rem == gap - add_w
        RH_use == IF rem > 0
                  THEN RHc + (IF counted > 0 THEN Round(rem * RHc, counted)
                                             ELSE Round(rem, 2))
                  ELSE RHc
        WH_use == IF rem > 0 THEN H_tot - RH_use ELSE WHc + add_w
    IN  <<RH_use, WH_use, gap>>

reconcile_hits_for_energy(db) ==
    IF db = None THEN <<0, 0, 0>>
    ELSE
        LET d == Val(db)
            H_tot == Max(d.A_db - d.M_db, 0)
            counted == d.RH + d.WH
            gap == H_tot - counted
        IN  IF gap <= 0 THEN <<d.RH, d.WH, 0>>
            ELSE ReconcileGap(d.RH, d.WH, H_tot, gap, d.coh_upgrades)

(***************************************************************************)
(* Energy constants (energy_ed2p_v3.py)                                    *)
(***************************************************************************)
Tech == {"SRAM", "JanS"}
Other(t) == IF t = "SRAM" THEN "JanS" ELSE "SRAM"

\* Built-in defaults, in pJ and mW.
SRAM_DEFAULT == [E_hit |-> 565, E_miss |-> 11, E_write |-> 537, P_leak |-> 3438]
JANS_DEFAULT == [E_hit |-> 188, E_miss |-> 77, E_write |-> 2305, P_leak |-> 48]
Default(t) == IF t = "SRAM" THEN SRAM_DEFAULT ELSE JANS_DEFAULT

\* The four keys, in the order _scan_text looks them up.
ConstKeys == <<"E_hit", "E_write", "E_miss", "P_leak">>
KeySet == {"E_hit", "E_write", "E_miss", "P_leak"}
FileNames == <<"sim.cfg", "sim.info", "sim.inf">>

\* _scan_text with a missing key read as 0 instead of giving up.
ScanText_ZeroFill(txt) ==
    Some([k \in KeySet |-> IF txt[k] = None THEN 0 ELSE Val(txt[k])])

\* _scan_text: the text of one file, as the value (pJ or mW, as written in
\* the file) it gives each key, None where the key's pattern does not match.
\* Returns the four constants, or None as soon as one key is missing.  A
\* file that cannot be read or holds a malformed number raises inside the
\* try block and is passed over exactly like an incomplete one.
ScanText(txt) ==
    IF \E k \in KeySet : txt[k] = None THEN None
    ELSE Some([k \in KeySet |-> Val(txt[k])])

\* TryFiles with the last complete file winning instead of the first.
TryFiles_LastWins(files, i) ==
    LET good == { j \in i..Len(FileNames) :
                    /\ files[FileNames[j]] # None
                    /\ ScanText(Val(files[FileNames[j]])) # None }
        last == CHOOSE j \in good : \A k \in good : k <= j
    IN  IF good = {} THEN None ELSE ScanText(Val(files[FileNames[last]]))

\* The result of trying files[i], files[i+1], ... in turn.
RECURSIVE TryFiles(_, _)
TryFiles(files, i) ==
    IF i > Len(FileNames) THEN None
    ELSE LET f == files[FileNames[i]]
             vals == IF f = None THEN None ELSE ScanText(Val(f))
         IN  IF vals # None THEN vals ELSE TryFiles(files, i + 1)

\* files: for each of sim.cfg, sim.info, sim.inf, None (no such file) or the
\* file's text.
parse_llc_energy_consts(files) == TryFiles(files, 1)

\* main: s_consts = parse_llc_energy_consts(dir) or SRAM_DEFAULT
PickConsts(t, files) ==
    LET got == parse_llc_energy_consts(files)
    IN  IF got # None THEN Val(got) ELSE Default(t)

(***************************************************************************)
(* Energy math (energy_ed2p_v3.py, energy_ed2p_v4.py)                      *)
(***************************************************************************)
\* TimeOrZero with an unknown time read as one time unit.
TimeOrZero_Unit(T) == IF T = None THEN 1 ELSE Val(T)

\* (T_s if T_s is not NaN else 0.0)
TimeOrZero(T) == IF T = None THEN 0 ELSE Val(T)

\* energy_bounds with every access counted as a hit.
energy_bounds_AllHits(c, T, acc, mis) ==
    LET hits == acc
        dyn_lo == c.E_hit * hits + c.E_miss * mis
        dyn_hi == c.E_write * hits + c.E_miss * mis
        eleak == c.P_leak * TimeOrZero(T)
    IN  [E_lo |-> dyn_lo + eleak, E_hi |-> dyn_hi + eleak,
         dyn_lo |-> dyn_lo, dyn_hi |-> dyn_hi, eleak |-> eleak]

\* energy_bounds with the read and write hit energies exchanged.
energy_bounds_Swapped(c, T, acc, mis) ==
    LET hits == Max(acc - mis, 0)
        dyn_lo == c.E_write * hits + c.E_miss * mis
        dyn_hi == c.E_hit * hits + c.E_miss * mis
        eleak == c.P_leak * TimeOrZero(T)
    IN  [E_lo |-> dyn_lo + eleak, E_hi |-> dyn_hi + eleak,
         dyn_lo |-> dyn_lo, dyn_hi |-> dyn_hi, eleak |-> eleak]

energy_bounds(c, T, acc, mis) ==
    LET hits == Max(acc - mis, 0)
        dyn_lo == c.E_hit * hits + c.E_miss * mis
        dyn_hi == c.E_write * hits + c.E_miss * mis
        eleak == c.P_leak * TimeOrZero(T)
    IN  [E_lo |-> dyn_lo + eleak, E_hi |-> dyn_hi + eleak,
         dyn_lo |-> dyn_lo, dyn_hi |-> dyn_hi, eleak |-> eleak]

\* energy_exact_from_counts with the leakage left out of the total.
energy_exact_from_counts_NoLeak(c, T, RH, WH, M) ==
    LET dyn == c.E_hit * RH + c.E_write * WH + c.E_miss * M
    IN  [dyn |-> dyn, E |-> dyn]

energy_exact_from_counts(c, T, RH, WH, M) ==
    LET dyn == c.E_hit * RH + c.E_write * WH + c.E_miss * M
    IN  [dyn |-> dyn, E |-> dyn + c.P_leak * TimeOrZero(T)]

\* ed2p with an unknown time read as 0, as the leakage does.
ed2p_TimeOrZero(E, T) ==
    IF E = None THEN None
    ELSE Some(Val(E) * TimeOrZero(T) * TimeOrZero(T))

\* E and T are floats that may be NaN (None).
ed2p(E, T) ==
    IF E = None \/ T = None THEN None
    ELSE Some(Val(E) * Val(T) * Val(T))

(***************************************************************************)
(* sim.out fields and conversions                                          *)
(***************************************************************************)
\* A sim.out report, as the values its labels carry: each field is None when
\* the label is absent.  parse_simout_full reads the text through _read_text,
\* which returns "" for a file it cannot open: every field is then None.
NoFields == [time_ns |-> None, cycles |-> None, l3_acc |-> None, l3_miss |-> None]

parse_simout_full(report) ==
    IF report = None THEN NoFields ELSE Val(report)

to_int_or_zero(s) == IF s = None THEN 0 ELSE Val(s)

\* to_float_or_nan(parsed.get("time_ns")) / 1e9 if parsed.get("time_ns")
\* else float('nan'); kept in ns.
TimeOf(parsed) == parsed.time_ns

\* period_ns_from_parsed / core_period_ns: tns / cyc when cyc > 0, as the
\* fraction <<tns, cyc>>; an absent field counts as 0.
period_ns_from_parsed(parsed) ==
    LET cyc == to_int_or_zero(parsed.cycles)
        tns == to_int_or_zero(parsed.time_ns)
    IN  IF cyc > 0 THEN Some(<<tns, cyc>>) ELSE None

\* avg_l3_hit_ns: ((RH*rd_cyc + WH*wr_cyc) * period_ns) / total as a
\* fraction, None when a cost or the period is missing or zero or when
\* there is no hit.  RH * rd_cyc with RH None raises, which returns None.
avg_l3_hit_ns(rd_cyc, wr_cyc, RH, WH, period_ns) ==
    LET total == (IF RH = None THEN 0 ELSE Val(RH)) + (IF WH = None THEN 0 ELSE Val(WH))
    IN  IF \/ rd_cyc = None \/ wr_cyc = None
           \/ total <= 0
           \/ period_ns = None
        THEN None
        ELSE IF \/ Val(rd_cyc) = 0 \/ Val(wr_cyc) = 0
                \/ Val(period_ns)[1] <= 0
                \/ RH = None \/ WH = None
        THEN None
        ELSE Some(<<(Val(RH) * Val(rd_cyc) + Val(WH) * Val(wr_cyc)) * Val(period_ns)[1],
                    total * Val(period_ns)[2]>>)

(***************************************************************************)
(* Fields of a CSV row                                                     *)
(***************************************************************************)
Empty == [kind |-> "empty"]
NanText == [kind |-> "nan"]
Num(v) == [kind |-> "num", v |-> v]

\* pJ per uJ: "%.6f" of an energy in J keeps whole microjoules.
PJ_PER_UJ == 1000000
\* pJ per nJ ("%.0f" of a dynamic energy in nJ), ns per us ("%.6f" of a
\* time in s).
PER_KILO == 1000

\* f"{x:.6f}" of an energy x (pJ in the model), in uJ.
FmtJ(e) == Num(Round(e, PJ_PER_UJ))
\* f"{x:.0f}" of a dynamic energy, in nJ.
FmtNJ(e) == Num(Round(e, PER_KILO))
\* f"{ed2p(E, T):.9e}": ten significant digits, exact for the model's values.
FmtSci(x) == IF x = None THEN NanText ELSE Num(Val(x))
\* str(x) of a count, "" when there is none.
StrOrEmpty(x) == IF x = None THEN Empty ELSE Num(Val(x))
\* Digits "%.9f" and "%.6f" keep of a time in ns.
PER_NANO == 1000000000
PER_MICRO == 1000000
\* f"{period_ns:.9f}" if period_ns else "": the whole ns and the nine
\* decimals of the fraction.
FmtPeriod(p) ==
    IF p = None THEN Empty
    ELSE IF Val(p)[1] <= 0 THEN Empty
    ELSE LET whole == Val(p)[1] \div Val(p)[2]
             decimals == Round((Val(p)[1] % Val(p)[2]) * PER_NANO, Val(p)[2])
         IN  IF decimals = PER_NANO THEN Num(<<whole + 1, 0>>)
             ELSE Num(<<whole, decimals>>)
\* f"{avg_hit_ns:.6f}" if avg_hit_ns else "": the fraction in 1e-6 ns.
FmtAvg(a) ==
    IF a = None THEN Empty
    ELSE IF Val(a)[1] <= 0 THEN Empty
    ELSE Num(Round(Val(a)[1] * PER_MICRO, Val(a)[2]))

(***************************************************************************)
(* Consistency notes                                                       *)
(***************************************************************************)
NoteMissing == [text |-> "sqlite_missing"]
NoteOk == [text |-> "ok"]
NoteWarn(diff, up, hp) ==
    [text |-> "warn_A-M!=RH+WH", diff |-> diff, upgrades |-> up,
     hits_prefetch |-> hp]

\* The tolerated jitter of mismatch_note (energy_ed2p_v3.py).
TOLERANCE == 2

\* mismatch_note without the tolerated jitter.
mismatch_note_Exact(db) ==
    IF db = None THEN NoteMissing
    ELSE LET d == Val(db)
             other == (d.A_db - d.M_db) - (d.RH + d.WH)
         IN  IF other = 0 THEN NoteOk
             ELSE NoteWarn(other,
                           IF d.coh_upgrades # 0 THEN Some(d.coh_upgrades) ELSE None,
                           IF d.hits_prefetch # 0 THEN Some(d.hits_prefetch) ELSE None)

\* energy_ed2p_v3.main.mismatch_note
mismatch_note(db) ==
    IF db = None THEN NoteMissing
    ELSE LET d == Val(db)
             other == (d.A_db - d.M_db) - (d.RH + d.WH)
         IN  IF -TOLERANCE <= other /\ other <= TOLERANCE THEN NoteOk
             ELSE NoteWarn(other,
                           IF d.coh_upgrades # 0 THEN Some(d.coh_upgrades) ELSE None,
                           IF d.hits_prefetch # 0 THEN Some(d.hits_prefetch) ELSE None)

\* energy_ed2p_v4.main.note_for
note_for(db) ==
    IF db = None THEN NoteMissing
    ELSE LET d == Val(db)
             diff == (d.A_db - d.M_db) - (d.RH + d.WH)
         IN  IF diff = 0 THEN NoteOk ELSE NoteWarn(diff, None, None)

(***************************************************************************)
(* main of energy_ed2p_v3.py and energy_ed2p_v4.py: one technology's run   *)
(***************************************************************************)
\* A run directory: the sim.out report (None: no such file), the record
\* read_llc_exact_from_db returns (None: no sim.stats.sqlite3), the
\* configuration files and the pair parse_llc_hit_cycles returns (here a
\* sim.cfg without hit costs).
RunDir(report, store, files) ==
    [report |-> report, store |-> store, files |-> files, hit |-> <<None, None>>]

\* ExactSource with the rebalancing never tagged.
ExactSource_Untagged(db, gap) == IF db = None THEN "" ELSE "sqlite"

\* s_exact_src = "" unless the store was read; then
\* "sqlite" + ("+rebalanced" if s_gap > 0 else "")
ExactSource(db, gap) ==
    IF db = None THEN ""
    ELSE IF gap > 0 THEN "sqlite+rebalanced" ELSE "sqlite"

\* LocalsV3 with the bounds computed from the store's counts when the store
\* is present.
LocalsV3_DbCounts(t, run) ==
    LET parsed == parse_simout_full(run.report)
        T == TimeOf(parsed)
        db == run.store
        A_txt == IF db # None THEN Val(db).A_db ELSE to_int_or_zero(parsed.l3_acc)
        M_txt == IF db # None THEN Val(db).M_db ELSE to_int_or_zero(parsed.l3_miss)
        rec == IF db # None THEN reconcile_hits_for_energy(db) ELSE <<0, 0, 0>>
        consts == PickConsts(t, run.files)
        b == energy_bounds(consts, T, A_txt, M_txt)
        exact == IF db # None
                 THEN Some(energy_exact_from_counts(consts, T, rec[1], rec[2],
                                                    Val(db).M_db))
                 ELSE None
    IN  [T |-> T, A_txt |-> A_txt, M_txt |-> M_txt, db |-> db,
         RH_use |-> rec[1], WH_use |-> rec[2], gap |-> rec[3],
         consts |-> consts, leakJ |-> b.eleak,
         dyn_lo |-> Some(b.dyn_lo), dyn_hi |-> Some(b.dyn_hi),
         E_lo |-> Some(b.E_lo), E_hi |-> Some(b.E_hi),
         dyn_exact |-> IF exact = None THEN None ELSE Some(Val(exact).dyn),
         E_exact |-> IF exact = None THEN None ELSE Some(Val(exact).E),
         exact_src |-> ExactSource(db, rec[3]),
         note |-> mismatch_note(db),
         rd_cyc |-> run.hit[1], wr_cyc |-> run.hit[2],
         period |-> period_ns_from_parsed(parsed),
         avg_hit |-> avg_l3_hit_ns(run.hit[1], run.hit[2], Some(rec[1]), Some(rec[2]),
                                   period_ns_from_parsed(parsed))]

\* LocalsV3 with the average hit latency taken on the store's raw hit counts.
LocalsV3_RawHits(t, run) ==
    LET parsed == parse_simout_full(run.report)
        T == TimeOf(parsed)
        A_txt == to_int_or_zero(parsed.l3_acc)
        M_txt == to_int_or_zero(parsed.l3_miss)
        db == run.store
        rec == IF db # None THEN reconcile_hits_for_energy(db) ELSE <<0, 0, 0>>
        consts == PickConsts(t, run.files)
        b == energy_bounds(consts, T, A_txt, M_txt)
        exact == IF db # None
                 THEN Some(energy_exact_from_counts(consts, T, rec[1], rec[2],
                                                    Val(db).M_db))
                 ELSE None
    IN  [T |-> T, A_txt |-> A_txt, M_txt |-> M_txt, db |-> db,
         RH_use |-> rec[1], WH_use |-> rec[2], gap |-> rec[3],
         consts |-> consts, leakJ |-> b.eleak,
         dyn_lo |-> Some(b.dyn_lo), dyn_hi |-> Some(b.dyn_hi),
         E_lo |-> Some(b.E_lo), E_hi |-> Some(b.E_hi),
         dyn_exact |-> IF exact = None THEN None ELSE Some(Val(exact).dyn),
         E_exact |-> IF exact = None THEN None ELSE Some(Val(exact).E),
         exact_src |-> ExactSource(db, rec[3]),
         note |-> mismatch_note(db),
         rd_cyc |-> run.hit[1], wr_cyc |-> run.hit[2],
         period |-> period_ns_from_parsed(parsed),
         avg_hit |-> IF db = None THEN None
                     ELSE avg_l3_hit_ns(run.hit[1], run.hit[2], Some(Val(db).RH),
                                        Some(Val(db).WH), period_ns_from_parsed(parsed))]

\* Everything energy_ed2p_v3.main computes for one technology before it
\* writes the rows.
LocalsV3(t, run) ==
    LET parsed == parse_simout_full(run.report)
        T == TimeOf(parsed)
        A_txt == to_int_or_zero(parsed.l3_acc)
        M_txt == to_int_or_zero(parsed.l3_miss)
        db == run.store
        rec == IF db # None THEN reconcile_hits_for_energy(db) ELSE <<0, 0, 0>>
        consts == PickConsts(t, run.files)
        b == energy_bounds(consts, T, A_txt, M_txt)
        exact == IF db # None
                 THEN Some(energy_exact_from_counts(consts, T, rec[1], rec[2],
                                                    Val(db).M_db))
                 ELSE None
    IN  [T |-> T, A_txt |-> A_txt, M_txt |-> M_txt, db |-> db,
         RH_use |-> rec[1], WH_use |-> rec[2], gap |-> rec[3],
         consts |-> consts, leakJ |-> b.eleak,
         dyn_lo |-> Some(b.dyn_lo), dyn_hi |-> Some(b.dyn_hi),
         E_lo |-> Some(b.E_lo), E_hi |-> Some(b.E_hi),
         dyn_exact |-> IF exact = None THEN None ELSE Some(Val(exact).dyn),
         E_exact |-> IF exact = None THEN None ELSE Some(Val(exact).E),
         exact_src |-> ExactSource(db, rec[3]),
         note |-> mismatch_note(db),
         rd_cyc |-> run.hit[1], wr_cyc |-> run.hit[2],
         period |-> period_ns_from_parsed(parsed),
         avg_hit |-> avg_l3_hit_ns(run.hit[1], run.hit[2], Some(rec[1]), Some(rec[2]),
                                   period_ns_from_parsed(parsed))]

\* The same for energy_ed2p_v4.main: built-in constants, raw hit counts.
LocalsV4(t, run) ==
    LET parsed == parse_simout_full(run.report)
        T == TimeOf(parsed)
        A_txt == to_int_or_zero(parsed.l3_acc)
        M_txt == to_int_or_zero(parsed.l3_miss)
        db == run.store
        consts == Default(t)
        b == energy_bounds(consts, T, A_txt, M_txt)
        exact == IF db # None
                 THEN Some(energy_exact_from_counts(consts, T, Val(db).RH,
                                                    Val(db).WH, Val(db).M_db))
                 ELSE None
    IN  [T |-> T, A_txt |-> A_txt, M_txt |-> M_txt, db |-> db,
         RH_use |-> IF db = None THEN 0 ELSE Val(db).RH,
         WH_use |-> IF db = None THEN 0 ELSE Val(db).WH, gap |-> 0,
         consts |-> consts, leakJ |-> b.eleak,
         dyn_lo |-> Some(b.dyn_lo), dyn_hi |-> Some(b.dyn_hi),
         E_lo |-> Some(b.E_lo), E_hi |-> Some(b.E_hi),
         dyn_exact |-> IF exact = None THEN None ELSE Some(Val(exact).dyn),
         E_exact |-> IF exact = None THEN None ELSE Some(Val(exact).E),
         exact_src |-> IF db = None THEN "" ELSE "sqlite",
         note |-> note_for(db),
         rd_cyc |-> run.hit[1], wr_cyc |-> run.hit[2],
         period |-> period_ns_from_parsed(parsed),
         avg_hit |-> avg_l3_hit_ns(run.hit[1], run.hit[2],
                                   IF db = None THEN None ELSE Some(Val(db).RH),
                                   IF db = None THEN None ELSE Some(Val(db).WH),
                                   period_ns_from_parsed(parsed))]

\* The columns both row builders share, from the locals l of technology t.
RowCommon(t, l) ==
    [config |-> t,
     l3_accesses |-> IF l.db # None THEN Num(Val(l.db).A_db) ELSE Num(l.A_txt),
     l3_misses_db |-> IF l.db # None THEN Num(Val(l.db).M_db) ELSE Num(l.M_txt),
     l3_read_hits |-> IF l.db # None THEN Num(Val(l.db).RH) ELSE Empty,
     l3_write_hits |-> IF l.db # None THEN Num(Val(l.db).WH) ELSE Empty,
     leak_W |-> Num(l.consts.P_leak),
     leak_J |-> FmtJ(l.leakJ),
     dyn_exact_nJ |-> IF l.dyn_exact # None THEN FmtNJ(Val(l.dyn_exact)) ELSE Empty,
     energy_exact_J |-> IF l.E_exact # None THEN FmtJ(Val(l.E_exact)) ELSE Empty,
     ed2p_exact_J_s2 |-> IF l.E_exact # None THEN FmtSci(ed2p(l.E_exact, l.T))
                         ELSE Empty,
     dyn_lower_nJ |-> FmtNJ(Val(l.dyn_lo)),
     dyn_upper_nJ |-> FmtNJ(Val(l.dyn_hi)),
     energy_lower_J |-> FmtJ(Val(l.E_lo)),
     energy_upper_J |-> FmtJ(Val(l.E_hi)),
     ed2p_lower_J_s2 |-> FmtSci(ed2p(l.E_lo, l.T)),
     ed2p_upper_J_s2 |-> FmtSci(ed2p(l.E_hi, l.T)),
     energy_scope |-> "llc_only",
     exact_source |-> l.exact_src,
     notes |-> l.note]

\* f"{T:.6f}" of the time in s, in us.
FmtTime(T) == IF T = None THEN NanText ELSE Num(Round(Val(T), PER_KILO))

\* energy_ed2p_v3.main.row_for
row_for(t, l) ==
    [c \in DOMAIN RowCommon(t, l) \cup {"time_s"} |->
        IF c = "time_s" THEN FmtTime(l.T) ELSE RowCommon(t, l)[c]]

\* energy_ed2p_v4.main.energy_row: the time is printed as 0 when unknown;
\* sorted((E_lo, E_hi)) is computed but the row is built from E_lo, E_hi.
energy_row(t, l) ==
    [c \in DOMAIN RowCommon(t, l) \cup {"time_s"} |->
        IF c = "time_s" THEN FmtTime(Some(TimeOrZero(l.T)))
        ELSE RowCommon(t, l)[c]]

\* energy_ed2p_v3.main.srow / energy_ed2p_v4.main.srow: the report and
\* store columns of summary.csv.
srow(t, run, l) ==
    LET parsed == parse_simout_full(run.report)
    IN  [config |-> t,
         time_ns |-> StrOrEmpty(parsed.time_ns),
         l3_acc_text |-> StrOrEmpty(parsed.l3_acc),
         l3_miss_text |-> StrOrEmpty(parsed.l3_miss),
         l3_accesses_db |-> IF l.db # None THEN Num(Val(l.db).A_db) ELSE Empty,
         l3_misses_db |-> IF l.db # None THEN Num(Val(l.db).M_db) ELSE Empty,
         l3_read_hits |-> IF l.db # None THEN Num(Val(l.db).RH) ELSE Empty,
         l3_write_hits |-> IF l.db # None THEN Num(Val(l.db).WH) ELSE Empty,
         rd_hit_cycles |-> StrOrEmpty(l.rd_cyc),
         wr_hit_cycles |-> StrOrEmpty(l.wr_cyc),
         core_period_ns |-> FmtPeriod(l.period),
         avg_l3_hit_ns |-> FmtAvg(l.avg_hit)]

Locals(v, t, run) == IF v = "v3" THEN LocalsV3(t, run) ELSE LocalsV4(t, run)

\* ComputeBoth with the SRAM run's store read for both technologies.
ComputeBoth_SramStore(v, pair) ==
    [t \in DOMAIN pair |->
        Locals(v, t, [pair[t] EXCEPT !.store = pair["SRAM"].store])]

\* main, from the parsing of the two reports to the figures of the two
\* rows: the s_ locals from sram_dir, the n_ locals from jans_dir.
ComputeBoth(v, pair) == [t \in DOMAIN pair |-> Locals(v, t, pair[t])]
EnergyRow(v, t, l) == IF v = "v3" THEN row_for(t, l) ELSE energy_row(t, l)

(***************************************************************************)
(* Inputs of one invocation                                                *)
(***************************************************************************)
\* Bounds of the invocation's inputs.
TimeNs == 2
\* Bound of the configured hit costs, in cycles.
MaxCycles == 4
BigCount == 40000
MainAcc == 4
MainMiss == 1
MainHit == 2

Reports ==
    { Some([time_ns |-> t, cycles |-> None, l3_acc |-> a, l3_miss |-> m]) :
        t \in {None, Some(TimeNs)},
        a \in {None, Some(0), Some(BigCount)},
        m \in {None, Some(1)} }

\* coherency-upgrades and hits-prefetch of a store.
Extras == {<<0, 0>>, <<1, 0>>, <<0, 1>>}

Stores ==
    {None} \cup
    { Some([DbRecord(A, M, RH, WH, x[1]) EXCEPT !.hits_prefetch = x[2]]) :
        A \in 0..MainAcc, M \in 0..MainMiss, RH \in 0..MainHit,
        WH \in 0..MainHit, x \in Extras }

\* The text of one configuration file: which keys it defines.  The value it
\* gives key number i is base + i, so that a constant shows its file.
FileText(base, defined) ==
    [k \in KeySet |->
        IF k \in defined
        THEN Some(base + (CHOOSE i \in 1..Len(ConstKeys) : ConstKeys[i] = k))
        ELSE None]

NoFiles == [f \in {"sim.cfg", "sim.info", "sim.inf"} |-> None]
CfgBase == 100
InfoBase == 200
InfBase == 300

\* The configuration files of an invocation: none, or a complete sim.cfg.
MainFiles ==
    { NoFiles, [NoFiles EXCEPT !["sim.cfg"] = Some(FileText(CfgBase, KeySet))] }

RunDirs ==
    { RunDir(r, st, f) : r \in Reports, st \in Stores, f \in MainFiles }

\* Run directories for the cases in which the two runs differ: a missing
\* report, and one complete run.
PlainRun ==
    RunDir(Some([time_ns |-> Some(TimeNs), cycles |-> None,
                 l3_acc |-> Some(BigCount), l3_miss |-> Some(1)]),
           Some(DbRecord(MainAcc, 1, MainHit, 1, 0)), NoFiles)
EdgeRuns == { PlainRun, [PlainRun EXCEPT !.report = None] }

\* Run directories for the hit latency: the report's Cycles line, the hit
\* counters of the store and the hit costs of sim.cfg vary.
LatencyStores ==
    {None} \cup
    { Some(DbRecord(MainAcc, 0, RH, WH, up)) :
        RH \in 0..MainHit, WH \in 0..MainHit, up \in 0..1 }

HitPairs == { <<None, None>>, <<Some(1), Some(MaxCycles)>> }

LatencyRuns ==
    { [RunDir(Some([time_ns |-> t, cycles |-> c, l3_acc |-> Some(MainAcc),
                    l3_miss |-> Some(0)]), st, NoFiles) EXCEPT !.hit = h] :
        t \in {None, Some(TimeNs)}, c \in {None, Some(0), Some(1), Some(3)},
        st \in LatencyStores, h \in HitPairs }

\* Run directories for the cases in which the two runs differ and both
\* have a report.
OtherRun ==
    [RunDir(Some([time_ns |-> Some(TimeNs), cycles |-> Some(1), l3_acc |-> Some(0),
                  l3_miss |-> None]),
            Some(DbRecord(MainAcc, 0, 1, MainHit, 1)),
            [NoFiles EXCEPT !["sim.cfg"] = Some(FileText(CfgBase, KeySet))])
     EXCEPT !.hit = <<Some(1), Some(MaxCycles)>>]
BareRun == RunDir(Some(NoFields), None, NoFiles)
MixedRuns == { PlainRun, OtherRun, BareRun }

\* Both technologies' run directories.
RunPairs ==
    { [t \in Tech |-> d] : d \in RunDirs \cup LatencyRuns }
    \cup { [t \in Tech |-> IF t = "SRAM" THEN a ELSE b] : a \in EdgeRuns, b \in EdgeRuns }
    \cup { [t \in Tech |-> IF t = "SRAM" THEN a ELSE b] : a \in MixedRuns, b \in MixedRuns }

(***************************************************************************)
(* main as a state machine                                                 *)
(***************************************************************************)
MainInit ==
    /\ version \in {"v3", "v4"}
    /\ runs \in RunPairs
    /\ pc = "start"
    /\ outDir \in BOOLEAN
    \* an existing output directory holds the CSVs of an earlier invocation
    /\ energyCsv = IF outDir THEN Some(<<>>) ELSE None
    /\ summaryCsv = IF outDir THEN Some(<<>>) ELSE None
    /\ loc = None

MainIdle ==
    /\ version = "v3"
    /\ runs = None
    /\ pc = "idle"
    /\ outDir = FALSE
    /\ energyCsv = None
    /\ summaryCsv = None
    /\ loc = None

ReportsExist == \A t \in Tech : runs[t].report # None

\* CheckPaths without the hard fail on a missing report.
CheckPaths_NoFail ==
    /\ pc = "start"
    /\ pc' = "mkdir"
    /\ UNCHANGED <<version, runs, outDir, energyCsv, summaryCsv, loc, notMain>>

\* for p in (sram_simout, jans_simout): if not os.path.isfile(p): raise SystemExit
CheckPaths ==
    /\ pc = "start"
    /\ pc' = IF ReportsExist THEN "mkdir" ELSE "exit_err"
    /\ UNCHANGED <<version, runs, outDir, energyCsv, summaryCsv, loc, notMain>>

\* ensure_dir(out_dir)
EnsureOutDir ==
    /\ pc = "mkdir"
    /\ outDir' = TRUE
    /\ pc' = "compute"
    /\ UNCHANGED <<version, runs, energyCsv, summaryCsv, loc, notMain>>

\* parse both reports, read both stores, compute both technologies' figures
ComputeLocals ==
    /\ pc = "compute"
    /\ loc' = Some(ComputeBoth(version, runs))
    /\ pc' = "write_energy"
    /\ UNCHANGED <<version, runs, outDir, energyCsv, summaryCsv, notMain>>

\* write_csv_overwrite(energy_path, energy_header, [s_row, n_row])
WriteEnergyCsv ==
    /\ pc = "write_energy"
    /\ outDir' = TRUE
    /\ energyCsv' = Some(<<EnergyRow(version, "SRAM", Val(loc)["SRAM"]),
                           EnergyRow(version, "JanS", Val(loc)["JanS"])>>)
    /\ pc' = "write_summary"
    /\ UNCHANGED <<version, runs, summaryCsv, loc, notMain>>

\* write_csv_overwrite(summary_path, summary_header, [...])
WriteSummaryCsv ==
    /\ pc = "write_summary"
    /\ outDir' = TRUE
    /\ summaryCsv' = Some(<<srow("SRAM", runs["SRAM"], Val(loc)["SRAM"]),
                            srow("JanS", runs["JanS"], Val(loc)["JanS"])>>)
    /\ pc' = "done"
    /\ UNCHANGED <<version, runs, energyCsv, loc, notMain>>

MainNext ==
    \/ CheckPaths
    \/ EnsureOutDir
    \/ ComputeLocals
    \/ WriteEnergyCsv
    \/ WriteSummaryCsv

(***************************************************************************)
(* The constants resolver as its own operation                             *)
(***************************************************************************)
\* Every text a configuration file may hold: any subset of the four keys.
FileTexts(base) == { FileText(base, D) : D \in SUBSET KeySet }
FileOrNone(base) == {None} \cup { Some(x) : x \in FileTexts(base) }

AllFiles ==
    { [f \in {"sim.cfg", "sim.info", "sim.inf"} |->
         IF f = "sim.cfg" THEN a ELSE IF f = "sim.info" THEN b ELSE c] :
        a \in FileOrNone(CfgBase), b \in FileOrNone(InfoBase),
        c \in FileOrNone(InfBase) }

ConstInit ==
    /\ cFiles \in AllFiles
    /\ cTech \in Tech
    /\ cOut = None
    /\ cCalls = <<>>

ConstIdle ==
    /\ cFiles = NoFiles
    /\ cTech = "SRAM"
    /\ cOut = None
    /\ cCalls = <<>>

\* ResolveConsts with the configuration files removed once read.
ResolveConsts_Consume ==
    /\ cOut = None
    /\ cOut' = Some(PickConsts(cTech, cFiles))
    /\ cCalls' = Append(cCalls, parse_llc_energy_consts(cFiles))
    /\ cFiles' = NoFiles
    /\ UNCHANGED <<cTech, notConst>>

\* consts = parse_llc_energy_consts(run_dir) or DEFAULT
ResolveConsts ==
    /\ cOut = None
    /\ cOut' = Some(PickConsts(cTech, cFiles))
    /\ cCalls' = Append(cCalls, parse_llc_energy_consts(cFiles))
    /\ UNCHANGED <<cFiles, cTech, notConst>>

\* main's second call for the same directory:
\* pretty(..., parse_llc_energy_consts(sram_dir) is not None)
ResolveAgain ==
    /\ cOut # None /\ Len(cCalls) = 1
    /\ cCalls' = Append(cCalls, parse_llc_energy_consts(cFiles))
    /\ UNCHANGED <<cFiles, cTech, cOut, notConst>>

(***************************************************************************)
(* load_data and its module-level cache (notebooks/modular_analysis.py)    *)
(***************************************************************************)
\* How often a results directory is regenerated in a session.
MaxVersion == 1

\* Run ids a caller passes; "" stands for None (both are falsy).  "bogus"
\* names a directory without output_*/summary.csv and energy_bounds.csv.
RunIds == {"", "runA", "runB", "bogus"}
ValidRuns == {"runA", "runB"}
SNIPER_RESULTS_DIR == "default"
ResultDirs == ValidRuns \cup {SNIPER_RESULTS_DIR}

_resolve_sniper_dir(runid) ==
    IF runid # "" /\ runid \in ValidRuns THEN runid ELSE SNIPER_RESULTS_DIR

\* parse_sniper(base_dir): the frame read from the CSVs under base_dir.
parse_sniper(d, dsk) == [dir |-> d, ver |-> dsk[d]]

\* process_dynamorio_data(logs_dir, ts_prefix): load_data always passes the
\* default logs directory and prefix.
FEATS == "feats"

\* load_data(runid, force_reload): the new cache and the returned pair.
load_data(c, dsk, runid, force) ==
    IF ~force /\ c # None
    THEN [cache |-> c, ret |-> Val(c)]
    ELSE LET got == [sniper |-> parse_sniper(_resolve_sniper_dir(runid), dsk),
                     feats |-> FEATS]
         IN  [cache |-> Some(got), ret |-> got]

CacheInit ==
    /\ cache = None
    /\ disk = [d \in ResultDirs |-> 0]
    /\ lastCall = None
    /\ lastRet = None

CacheIdle ==
    /\ cache = None
    /\ disk = [d \in ResultDirs |-> 0]
    /\ lastCall = None
    /\ lastRet = None

LoadData ==
    \E runid \in RunIds, force \in BOOLEAN :
        LET r == load_data(cache, disk, runid, force)
        IN  /\ cache' = r.cache
            /\ lastCall' = Some([runid |-> runid, force |-> force])
            /\ lastRet' = Some(r.ret)
            /\ UNCHANGED <<disk, notCache>>

\* The scripts are run again and rewrite the CSVs of one results directory.
Regenerate ==
    \E d \in ResultDirs :
        /\ disk[d] < MaxVersion
        /\ disk' = [disk EXCEPT ![d] = @ + 1]
        /\ UNCHANGED <<cache, lastCall, lastRet, notCache>>

CacheNext == LoadData \/ Regenerate

(***************************************************************************)
(* The statistics store reader (energy_ed2p_v3.py)                         *)
(***************************************************************************)
\* Bounds of a store: how many rows it holds, and the largest value of one.
MaxRows == 2
MaxVal == 2

\* The rows of "values" joined with names and prefixes.  Rows of one
\* (prefix, object, metric) that differ in value are those of different cores.
Prefixes == {"roi-begin", "roi-end", "start"}
Names ==
    { <<"L3", "loads">>, <<"L3", "stores">>, <<"L3", "load-misses">>,
      <<"L3", "l3_read_hits">>, <<"L3.next_read", "l3_read_hits">>,
      <<"L3", "l3_write_hits">>, <<"L3.next_read", "l3_write_hits">>,
      <<"L3.next_read", "loads">>, <<"L2", "l3_read_hits">> }
StoreRows ==
    { [prefixname |-> p, objectname |-> n[1], metricname |-> n[2], value |-> v] :
        p \in Prefixes, n \in Names, v \in 1..MaxVal }

\* n.objectname LIKE 'L3%'
LikeL3(obj) == obj \in {"L3", "L3.next_read"}

\* The CASE of the queries without the roi-begin rows subtracted.
Signed_EndOnly(r) ==
    IF r.prefixname = "roi-end" THEN r.value ELSE 0

\* CASE p.prefixname WHEN 'roi-end' THEN v.value WHEN 'roi-begin' THEN -v.value
\* ELSE 0 END
Signed(r) ==
    IF r.prefixname = "roi-end" THEN r.value
    ELSE IF r.prefixname = "roi-begin" THEN -r.value
    ELSE 0

\* COALESCE(SUM(...), 0) over the selected rows; int(val or 0) of an integer
\* sum is the sum.
RECURSIVE SumSigned(_)
SumSigned(S) ==
    IF S = {} THEN 0
    ELSE LET r == CHOOSE x \in S : TRUE
         IN  Signed(r) + SumSigned(S \ {r})

InRoi(r) == r.prefixname \in {"roi-begin", "roi-end"}

sum_delta_int_L3(rows, metrics) ==
    SumSigned({ r \in rows :
                 r.objectname = "L3" /\ r.metricname \in metrics /\ InRoi(r) })

one_delta_int_L3(rows, metric) == sum_delta_int_L3(rows, {metric})

\* Called with obj_like = 'L3%' only.
sum_delta_int_like(rows, metric) ==
    SumSigned({ r \in rows :
                 r.metricname = metric /\ LikeL3(r.objectname) /\ InRoi(r) })

\* file: None when run_dir has no sim.stats.sqlite3, else <<its rows>>.
read_llc_exact_from_db(file) ==
    IF file = None THEN None
    ELSE
        LET rows == Val(file)
            RH_local == one_delta_int_L3(rows, "l3_read_hits")
            RH_all == sum_delta_int_like(rows, "l3_read_hits")
            WH_local == one_delta_int_L3(rows, "l3_write_hits")
            WH_all == sum_delta_int_like(rows, "l3_write_hits")
        IN  Some([A_db |-> sum_delta_int_L3(rows, {"loads", "stores"}),
                  M_db |-> sum_delta_int_L3(rows, {"load-misses", "store-misses"}),
                  RH |-> RH_all, WH |-> WH_all,
                  WB |-> one_delta_int_L3(rows, "l3_writebacks"),
                  EV |-> one_delta_int_L3(rows, "l3_evictions"),
                  M_custom |-> one_delta_int_L3(rows, "l3_misses"),
                  RH_local |-> RH_local, RH_remote |-> Max(RH_all - RH_local, 0),
                  WH_local |-> WH_local, WH_remote |-> Max(WH_all - WH_local, 0),
                  hits_prefetch |-> one_delta_int_L3(rows, "hits-prefetch"),
                  loads_prefetch |-> one_delta_int_L3(rows, "loads-prefetch"),
                  stores_prefetch |-> one_delta_int_L3(rows, "stores-prefetch"),
                  prefetches |-> one_delta_int_L3(rows, "prefetches"),
                  coh_upgrades |-> one_delta_int_L3(rows, "coherency-upgrades")])

StoreInit ==
    /\ dbFile \in {None, Some({})}
    /\ dbOut = None

StoreIdle ==
    /\ dbFile = None
    /\ dbOut = None

\* The simulator records one more row before the script runs.
InsertRow ==
    \E r \in StoreRows :
        /\ dbFile # None /\ dbOut = None
        /\ r \notin Val(dbFile)
        /\ Cardinality(Val(dbFile)) < MaxRows
        /\ dbFile' = Some(Val(dbFile) \cup {r})
        /\ UNCHANGED <<dbOut, notStore>>

\* s_db = read_llc_exact_from_db(sram_dir)
ReadStore ==
    /\ dbOut = None
    /\ dbOut' = Some(read_llc_exact_from_db(dbFile))
    /\ UNCHANGED <<dbFile, notStore>>

StoreNext == InsertRow \/ ReadStore

(***************************************************************************)
(* The energy functions as operations of their own                         *)
(***************************************************************************)
\* Bounds of the arguments: counts, elapsed time (ns), energy (pJ).
EnCount == 3
EnTime == 2
EnEnergy == 3

\* The worked example of the specification: acc = 1000, mis = 100.
ExampleCounts == [acc |-> 1000, mis |-> 100]

ConstSets == {SRAM_DEFAULT, JANS_DEFAULT}
Times == {None} \cup { Some(t) : t \in 0..EnTime }
BoundsCalls ==
    { [op |-> "bounds", c |-> c, T |-> T, acc |-> a, mis |-> m] :
        c \in ConstSets, T \in Times, a \in 0..EnCount, m \in 0..EnCount }
    \cup { [op |-> "bounds", c |-> c, T |-> T, acc |-> ExampleCounts.acc,
            mis |-> ExampleCounts.mis] : c \in ConstSets, T \in Times }
ExactCalls ==
    { [op |-> "exact", c |-> c, T |-> T, RH |-> r, WH |-> w, M |-> m] :
        c \in ConstSets, T \in Times, r \in 0..EnCount, w \in 0..EnCount,
        m \in 0..EnCount }
Ed2pCalls ==
    { [op |-> "ed2p", E |-> E, T |-> T] :
        E \in {None} \cup { Some(x) : x \in 0..EnEnergy }, T \in Times }

MathInit ==
    /\ eIn \in BoundsCalls \cup ExactCalls \cup Ed2pCalls
    /\ eOut = None
    /\ eEd = None

MathIdle ==
    /\ eIn = None
    /\ eOut = None
    /\ eEd = None

\* (s_E_lo, s_E_hi), (s_dyn_lo, s_dyn_hi), s_leakJ = energy_bounds(...)
BoundsCall ==
    /\ eIn.op = "bounds" /\ eOut = None
    /\ eOut' = Some(energy_bounds(eIn.c, eIn.T, eIn.acc, eIn.mis))
    /\ UNCHANGED <<eIn, eEd, notMath>>

\* s_dyn_exact, s_E_exact = energy_exact_from_counts(...)
ExactCall ==
    /\ eIn.op = "exact" /\ eOut = None
    /\ eOut' = Some(energy_exact_from_counts(eIn.c, eIn.T, eIn.RH, eIn.WH, eIn.M))
    /\ UNCHANGED <<eIn, eEd, notMath>>

\* ed2p(E_J, T_s)
Ed2pCall ==
    /\ eIn.op = "ed2p" /\ eEd = None
    /\ eEd' = Some(ed2p(eIn.E, eIn.T))
    /\ UNCHANGED <<eIn, eOut, notMath>>

\* row_for: ed2p(E_lo, T), ed2p(E_hi, T) of the bounds just computed
BoundEd2p ==
    /\ eIn.op = "bounds" /\ eOut # None /\ eEd = None
    /\ eEd' = Some(<<ed2p(Some(Val(eOut).E_lo), eIn.T),
                      ed2p(Some(Val(eOut).E_hi), eIn.T)>>)
    /\ UNCHANGED <<eIn, eOut, notMath>>

MathNext == BoundsCall \/ ExactCall \/ Ed2pCall \/ BoundEd2p

(***************************************************************************)
(* write_csv_rows (energy_ed2p_v2.py)                                      *)
(***************************************************************************)
\* Bounds: the rows a file may grow to, and the rows of one call.
MaxLines == 5
MaxCallRows == 2

\* The header line of the file, and the rows a call may pass.
HEADER == "header"
RowValues == {"SRAM", "JanS"}
CallRows ==
    UNION { [1..n -> RowValues] : n \in 0..MaxCallRows }

\* write_csv_rows with the header written by every call.
write_csv_rows_HeaderEachCall(file, rows, overwrite) ==
    LET kept == IF overwrite /\ file # None THEN None ELSE file
    IN  Some((IF kept = None THEN <<>> ELSE Val(kept)) \o <<HEADER>> \o rows)

\* write_csv_rows(path, header, rows, overwrite): the lines of the file
\* after the call, from the file before it.
write_csv_rows(file, rows, overwrite) ==
    LET kept == IF overwrite /\ file # None THEN None ELSE file
        write_hdr == kept = None
    IN  Some((IF kept = None THEN <<>> ELSE Val(kept))
             \o (IF write_hdr THEN <<HEADER>> ELSE <<>>) \o rows)

CsvInit ==
    /\ csvFile = None
    /\ lastWrite = None

CsvIdle ==
    /\ csvFile = None
    /\ lastWrite = None

WriteCsvRows ==
    \E rows \in CallRows, overwrite \in BOOLEAN :
        /\ (IF csvFile = None \/ overwrite THEN 0 ELSE Len(Val(csvFile)) - 1)
              + Len(rows) <= MaxLines
        /\ csvFile' = write_csv_rows(csvFile, rows, overwrite)
        /\ lastWrite' = Some([rows |-> rows, overwrite |-> overwrite])
        /\ UNCHANGED notCsv

CsvNext == WriteCsvRows

(***************************************************************************)
(* Hit cycle costs (energy_ed2p_v3.py)                                     *)
(***************************************************************************)
\* What parsing sim.cfg leaves in rd_llc, wr_llc, rd_next, wr_next: None for
\* a key the file does not set (or when there is no sim.cfg).
HitCfgs ==
    { [rd_llc |-> a, wr_llc |-> b, rd_next |-> c, wr_next |-> d] :
        a \in {None, Some(1)}, b \in {None, Some(2)},
        c \in {None, Some(MaxCycles)}, d \in {None, Some(MaxCycles + 1)} }

\* The hit-counter rows of a store.
HitRows ==
    { r \in StoreRows :
        /\ r.metricname \in {"l3_read_hits", "l3_write_hits"}
        /\ LikeL3(r.objectname) /\ InRoi(r) }

\* _roi_delta(cur, metric, obj_exact="L3") and _roi_delta(cur, metric,
\* obj_like="L3%")
_roi_delta(rows, metric, like) ==
    SumSigned({ r \in rows :
                 /\ r.metricname = metric
                 /\ IF like THEN LikeL3(r.objectname) ELSE r.objectname = "L3"
                 /\ InRoi(r) })

\* Python 3 round(n / d) for any signs, d # 0.
RoundDiv(n, d) ==
    LET nn == IF d < 0 THEN -n ELSE n
        dd == IF d < 0 THEN -d ELSE d
    IN  IF nn >= 0 THEN Round(nn, dd) ELSE -Round(-nn, dd)

\* EffCycles with the plain mean of the two costs.
EffCycles_Mean(local, remote, c_llc, c_next) ==
    IF local + remote = 0 THEN c_llc ELSE RoundDiv(c_llc + c_next, 2)

\* rd_llc if rd_total == 0 else
\* int(round((RH_local*rd_llc + RH_remote*rd_next) / float(rd_total)))
EffCycles(local, remote, c_llc, c_next) ==
    IF local + remote = 0 THEN c_llc
    ELSE RoundDiv(local * c_llc + remote * c_next, local + remote)

\* parse_llc_hit_cycles with a half-configured local pair returned as is.
parse_llc_hit_cycles_Partial(cfg, file) ==
    IF cfg.rd_next # None /\ cfg.wr_next # None
    THEN <<cfg.rd_next, cfg.wr_next>>
    ELSE <<cfg.rd_llc, cfg.wr_llc>>

\* cfg: the costs sim.cfg configures; file: the store's rows, None when
\* run_dir has no sim.stats.sqlite3.
parse_llc_hit_cycles(cfg, file) ==
    LET have_llc == cfg.rd_llc # None /\ cfg.wr_llc # None
        have_next == cfg.rd_next # None /\ cfg.wr_next # None
    IN  IF ~have_llc /\ ~have_next THEN <<None, None>>
        ELSE IF have_llc /\ ~have_next THEN <<cfg.rd_llc, cfg.wr_llc>>
        ELSE IF have_next /\ ~have_llc THEN <<cfg.rd_next, cfg.wr_next>>
        ELSE IF file = None THEN <<cfg.rd_llc, cfg.wr_llc>>
        ELSE
            LET rows == Val(file)
                RH_local == _roi_delta(rows, "l3_read_hits", FALSE)
                RH_all == _roi_delta(rows, "l3_read_hits", TRUE)
                WH_local == _roi_delta(rows, "l3_write_hits", FALSE)
                WH_all == _roi_delta(rows, "l3_write_hits", TRUE)
                RH_remote == Max(RH_all - RH_local, 0)
                WH_remote == Max(WH_all - WH_local, 0)
            IN  <<Some(EffCycles(RH_local, RH_remote, Val(cfg.rd_llc),
                                 Val(cfg.rd_next))),
                  Some(EffCycles(WH_local, WH_remote, Val(cfg.wr_llc),
                                 Val(cfg.wr_next)))>>

CycInit ==
    /\ hCfg \in HitCfgs
    /\ hOut = None
    /\ dbFile \in {None, Some({})}
    /\ dbOut = None

CycIdle ==
    /\ hCfg = None
    /\ hOut = None

\* The simulator records one more hit counter before the script runs.
InsertHitRow ==
    \E r \in HitRows :
        /\ dbFile # None /\ hOut = None
        /\ r \notin Val(dbFile)
        /\ Cardinality(Val(dbFile)) < MaxRows
        /\ dbFile' = Some(Val(dbFile) \cup {r})
        /\ UNCHANGED <<dbOut, hCfg, hOut, notCyc>>

\* s_rd_cyc, s_wr_cyc = parse_llc_hit_cycles(sram_dir)
HitCyclesCall ==
    /\ hOut = None
    /\ hOut' = Some(parse_llc_hit_cycles(hCfg, dbFile))
    /\ UNCHANGED <<hCfg, dbFile, dbOut, notCyc>>

CycNext == InsertHitRow \/ HitCyclesCall

(***************************************************************************)
(* The L3 block of sim.out (energy_ed2p_v3.py, parse_simout_full)          *)
(***************************************************************************)
\* Bounds of the report text.
MaxReportLines == 4
MaxField == 2

\* A line of sim.out is "name | value": a block header has nothing after the
\* pipe, a label line has a number.
BlockHeaders == {"Cache L2", "Cache L3", "Cache L4", "DRAM summary"}
L3Labels == {"num cache accesses", "num cache misses", "miss rate"}
ReportLines ==
    { [name |-> h, value |-> None] : h \in BlockHeaders }
    \cup { [name |-> l, value |-> Some(v)] : l \in L3Labels, v \in 1..MaxField }

IsHeader(line) == line.value = None

Headers == { line \in ReportLines : IsHeader(line) }
HeaderOf(h) == [name |-> h, value |-> None]

\* The position of the first line after position from that is one of
\* wanted, Len(lines) + 1 when there is none.
FirstAfter(lines, from, wanted) ==
    IF \E j \in (from + 1)..Len(lines) : lines[j] \in wanted
    THEN CHOOSE j \in (from + 1)..Len(lines) :
            /\ lines[j] \in wanted
            /\ \A k \in (from + 1)..(j - 1) : lines[k] \notin wanted
    ELSE Len(lines) + 1

\* re.search(label + r'\s*\|\s*([0-9,]+)', body): the number of the first
\* line of lines[from + 1 .. to - 1] that carries the label.
FirstLabel(lines, from, to, label) ==
    LET carrying == { line \in ReportLines \ Headers : line.name = label }
        j == FirstAfter(lines, from, carrying)
    IN  IF j < to THEN lines[j].value ELSE None

\* The L3 fields read from the lines between position from and position to.
FieldsBetween(lines, from, to) ==
    [l3_acc |-> FirstLabel(lines, from, to, "num cache accesses"),
     l3_miss |-> FirstLabel(lines, from, to, "num cache misses"),
     l3_miss_rate_pct |-> FirstLabel(lines, from, to, "miss rate")]

NoL3 == [l3_acc |-> None, l3_miss |-> None, l3_miss_rate_pct |-> None]

\* The position of the first "Cache L3" header, Len(lines) + 1 when there
\* is none.
L3Header(lines) == FirstAfter(lines, 0, {HeaderOf("Cache L3")})

\* blk = re.search(r'Cache\s+L3\s*\|(?P<body>.*?)(?=\n\s*DRAM\s+summary\s*\||\Z)')
\* and the three searches in its body: the body runs from the first
\* "Cache L3" header to the next "DRAM summary" header or the end of the text.
parse_simout_L3(lines) ==
    LET start == L3Header(lines)
    IN  IF start > Len(lines) THEN NoL3
        ELSE FieldsBetween(lines, start,
                           FirstAfter(lines, start, {HeaderOf("DRAM summary")}))

RepInit ==
    /\ simOut = <<>>
    /\ simParsed = None

RepIdle ==
    /\ simOut = <<>>
    /\ simParsed = None

\* The simulator writes one more line of the report.
WriteReportLine ==
    \E line \in ReportLines :
        /\ simParsed = None
        /\ Len(simOut) < MaxReportLines
        /\ simOut' = Append(simOut, line)
        /\ UNCHANGED <<simParsed, notRep>>

\* sram_parsed, _ = parse_simout_full(sram_simout)
ParseReport ==
    /\ simParsed = None
    /\ simParsed' = Some(parse_simout_L3(simOut))
    /\ UNCHANGED <<simOut, notRep>>

RepNext == WriteReportLine \/ ParseReport

(***************************************************************************)
(* Specification: hit reconciliation alone                                 *)
(***************************************************************************)
RecInit ==
    /\ rIn \in DbOrNone
    /\ rOut = None

RecIdle ==
    /\ rIn = None
    /\ rOut = None

ReconcileCall ==
    /\ rOut = None
    /\ rOut' = Some(reconcile_hits_for_energy(rIn))
    /\ UNCHANGED <<rIn, notRec>>

RecNext == ReconcileCall

InitReconcile == RecInit /\ MainIdle /\ ConstIdle /\ CacheIdle /\ StoreIdle /\ MathIdle /\ CsvIdle /\ CycIdle /\ RepIdle

SpecReconcile == InitReconcile /\ [][RecNext]_vars

(***************************************************************************)
(* Specification: the constants resolver alone                             *)
(***************************************************************************)
ConstNext == ResolveConsts \/ ResolveAgain

InitConsts == ConstInit /\ MainIdle /\ RecIdle /\ CacheIdle /\ StoreIdle /\ MathIdle /\ CsvIdle /\ CycIdle /\ RepIdle

SpecConsts == InitConsts /\ [][ConstNext]_vars

(***************************************************************************)
(* Specification: a notebook session calling load_data                     *)
(***************************************************************************)
InitCache == CacheInit /\ MainIdle /\ RecIdle /\ ConstIdle /\ StoreIdle /\ MathIdle /\ CsvIdle /\ CycIdle /\ RepIdle

SpecCache == InitCache /\ [][CacheNext]_vars

(***************************************************************************)
(* Specification: the store reader alone                                   *)
(***************************************************************************)
InitStore == StoreInit /\ MainIdle /\ RecIdle /\ ConstIdle /\ CacheIdle /\ MathIdle /\ CsvIdle /\ CycIdle /\ RepIdle

SpecStore == InitStore /\ [][StoreNext]_vars

(***************************************************************************)
(* Specification: the energy functions alone                               *)
(***************************************************************************)
InitMath == MathInit /\ MainIdle /\ RecIdle /\ ConstIdle /\ CacheIdle /\ StoreIdle /\ CsvIdle /\ CycIdle /\ RepIdle

SpecMath == InitMath /\ [][MathNext]_vars

(***************************************************************************)
(* Specification: write_csv_rows calls on one path                         *)
(***************************************************************************)
InitCsv ==
    CsvInit /\ MainIdle /\ RecIdle /\ ConstIdle /\ CacheIdle /\ StoreIdle /\ MathIdle /\ CycIdle /\ RepIdle

SpecCsv == InitCsv /\ [][CsvNext]_vars

(***************************************************************************)
(* Specification: parse_llc_hit_cycles alone                               *)
(***************************************************************************)
InitCycles ==
    CycInit /\ MainIdle /\ RecIdle /\ ConstIdle /\ CacheIdle /\ MathIdle /\ CsvIdle /\ RepIdle

SpecCycles == InitCycles /\ [][CycNext]_vars

(***************************************************************************)
(* Specification: parse_simout_full on a report being written              *)
(***************************************************************************)
InitReport ==
    RepInit /\ MainIdle /\ RecIdle /\ ConstIdle /\ CacheIdle /\ StoreIdle /\ MathIdle /\ CsvIdle /\ CycIdle

SpecReport == InitReport /\ [][RepNext]_vars

(***************************************************************************)
(* Specification: one invocation of the script                             *)
(***************************************************************************)
Init == MainInit /\ RecIdle /\ ConstIdle /\ CacheIdle /\ StoreIdle /\ MathIdle /\ CsvIdle /\ CycIdle /\ RepIdle

Next == MainNext

Spec == Init /\ [][Next]_vars

(***************************************************************************)
(* Properties                                                              *)
(***************************************************************************)
\* The rows of energy_bounds.csv are those of this invocation.
EnergyWritten == pc \in {"write_summary", "done"}
EnergyRows == Val(energyCsv)
RowOf(t) == IF t = "SRAM" THEN EnergyRows[1] ELSE EnergyRows[2]

\* The store's hit total and classified hits, from the store record itself.
TotalHits(d) == IF d.A_db - d.M_db > 0 THEN d.A_db - d.M_db ELSE 0
Counted(d) == d.RH + d.WH

\* C1: for every store record with non-negative counts, the read and write
\* hit counts reconcile_hits_for_energy returns sum to max(A_db - M_db, 0).
C1_SumIsTotalHits ==
    (rIn # None /\ rOut # None) =>
        Val(rOut)[1] + Val(rOut)[2] = TotalHits(Val(rIn))

\* C2: in every energy_bounds.csv row written by either script, the lower
\* total-energy bound printed is at most the upper bound printed.
C2_LowerLeUpper ==
    EnergyWritten =>
        \A t \in Tech : RowOf(t).energy_lower_J.v <= RowOf(t).energy_upper_J.v

\* C3: when the report lacks the L3 access or miss count, the dynamic
\* bounds, total-energy bounds and bound ED2P of that run are not-a-number
\* in energy_ed2p_v3.main.
C3_MissingCountIsUnknown ==
    (version = "v3" /\ loc # None) =>
        \A t \in Tech :
            LET rep == Val(runs[t].report)
                l == Val(loc)[t]
            IN  (rep.l3_acc = None \/ rep.l3_miss = None) =>
                    /\ l.dyn_lo = None /\ l.dyn_hi = None
                    /\ l.E_lo = None /\ l.E_hi = None
                    /\ ed2p(l.E_lo, l.T) = None /\ ed2p(l.E_hi, l.T) = None

\* The exact columns of a row are empty.
ExactEmpty(row) ==
    /\ row.dyn_exact_nJ = Empty
    /\ row.energy_exact_J = Empty
    /\ row.ed2p_exact_J_s2 = Empty

\* The dynamic bounds of a row are those of the report's coarse counts
\* (a count the report lacks counting as 0) under the constants c.
BoundsFromReport(row, rep, c) ==
    LET acc == IF rep.l3_acc = None THEN 0 ELSE Val(rep.l3_acc)
        mis == IF rep.l3_miss = None THEN 0 ELSE Val(rep.l3_miss)
        hits == IF acc - mis > 0 THEN acc - mis ELSE 0
    IN  /\ row.dyn_lower_nJ = Num(Round(c.E_hit * hits + c.E_miss * mis, 1000))
        /\ row.dyn_upper_nJ = Num(Round(c.E_write * hits + c.E_miss * mis, 1000))

\* C4 as stated: with no store, energy_ed2p_v3.main fails nowhere and writes
\* the technology's row with bounds from the report's counts, empty exact
\* columns and the provenance tag "bounds-only".
C4_BoundsOnlyTag ==
    (version = "v3" /\ EnergyWritten) =>
        \A t \in Tech :
            runs[t].store = None =>
                /\ ExactEmpty(RowOf(t))
                /\ RowOf(t).exact_source = "bounds-only"

\* C4 amended: with no store, energy_ed2p_v3.main fails nowhere (it goes on
\* to write both files) and writes the technology's row with bounds from the
\* report's counts and empty exact columns; the provenance column
\* exact_source is empty and notes is "sqlite_missing".
C4_StoreAbsentRecord ==
    (version = "v3" /\ (\E t \in Tech : runs[t].store = None)
       /\ ReportsExist) =>
        /\ pc # "exit_err"
        /\ pc # "done" => ENABLED Next
        /\ EnergyWritten =>
            \A t \in Tech :
                runs[t].store = None =>
                    /\ RowOf(t).config = t
                    /\ ExactEmpty(RowOf(t))
                    /\ BoundsFromReport(RowOf(t), Val(runs[t].report),
                                        Val(loc)[t].consts)
                    /\ RowOf(t).exact_source = ""
                    /\ RowOf(t).notes = NoteMissing

C4_Witness ==
    /\ version = "v3" /\ pc = "done"
    /\ runs["JanS"].store = None
    /\ Val(runs["JanS"].report).l3_acc = Some(BigCount)
    /\ RowOf("JanS").exact_source = ""
    /\ RowOf("JanS").dyn_lower_nJ.v > 0

\* C5: if either sim.out path is not an existing file, main ends with an
\* error before the output directory is created and before any CSV is
\* written or modified, and computes nothing from an empty report.
C5_MissingReportStopsFirst ==
    [][(~ReportsExist) =>
          /\ pc' = "exit_err"
          /\ UNCHANGED <<outDir, energyCsv, summaryCsv, loc>>]_vars

C5_Witness ==
    /\ pc = "exit_err" /\ ~ReportsExist
    /\ version = "v3" /\ outDir = FALSE /\ energyCsv = None

\* C6: the four constants used for a run all come from one file that
\* defines all four keys, or all four are the technology's defaults; a file
\* defining fewer keys contributes no value.
Complete(txt) == \A k \in KeySet : txt[k] # None
FromFile(c, f) ==
    /\ f # None /\ Complete(Val(f))
    /\ \A k \in KeySet : c[k] = Val(Val(f)[k])

C6_NoMixedSources ==
    cOut # None =>
        LET c == Val(cOut)
            names == {"sim.cfg", "sim.info", "sim.inf"}
        IN  /\ \/ c = Default(cTech)
               \/ \E n \in names : FromFile(c, cFiles[n])
            /\ \A n \in names :
                 (cFiles[n] # None /\ ~Complete(Val(cFiles[n]))) =>
                     \A k \in KeySet :
                         Val(cFiles[n])[k] # None => c[k] # Val(Val(cFiles[n])[k])

C6_Witness ==
    /\ cOut # None
    /\ cFiles["sim.cfg"] # None
    /\ Cardinality({k \in KeySet : Val(cFiles["sim.cfg"])[k] # None}) = 3
    /\ cFiles["sim.info"] = None /\ cFiles["sim.inf"] = None
    /\ Val(cOut) = Default(cTech)

\* C7: in every row energy_ed2p_v3.main writes, exact_source is empty and
\* notes is "sqlite_missing" exactly when the store is absent, exact_source
\* is "sqlite+rebalanced" exactly when the store is present with a positive
\* reconciliation gap, and "sqlite" exactly when it is present with gap 0.
C7_ProvenancePair ==
    (version = "v3" /\ EnergyWritten) =>
        \A t \in Tech :
            LET st == runs[t].store
                row == RowOf(t)
                gapPos == st # None /\ TotalHits(Val(st)) > Counted(Val(st))
            IN  /\ (row.exact_source = "" /\ row.notes = NoteMissing) <=> (st = None)
                /\ (row.exact_source = "") <=> (st = None)
                /\ (row.notes = NoteMissing) <=> (st = None)
                /\ (row.exact_source = "sqlite+rebalanced") <=> gapPos
                /\ (row.exact_source = "sqlite") <=> (st # None /\ ~gapPos)
                /\ gapPos <=> (Val(loc)[t].gap > 0)
                /\ (st # None /\ ~gapPos) => Val(loc)[t].gap = 0

C7_Witness ==
    /\ version = "v3" /\ pc = "done"
    /\ RowOf("SRAM").exact_source = "sqlite+rebalanced"
    /\ RowOf("SRAM").notes = NoteOk

\* The difference mismatch_note reports.
Diff(d) == (d.A_db - d.M_db) - (d.RH + d.WH)

\* C8 as stated: whenever (A_db - M_db) differs from RH + WH, the note of
\* energy_ed2p_v3.main reports the mismatch and its magnitude; the note is
\* "ok" only when the two totals agree.
C8_OkOnlyWhenEqual ==
    (version = "v3" /\ EnergyWritten) =>
        \A t \in Tech :
            runs[t].store # None =>
                LET d == Val(runs[t].store)
                    note == RowOf(t).notes
                IN  /\ (note = NoteOk) => Diff(d) = 0
                    /\ Diff(d) # 0 =>
                         (note.text = "warn_A-M!=RH+WH" /\ note.diff = Diff(d))

\* C8 amended: whenever (A_db - M_db) differs from RH + WH by more than 2,
\* energy_ed2p_v3.main does not fail and the note reports the mismatch and
\* its magnitude; the note is "ok" exactly when the totals differ by at
\* most 2.
C8_NoteWithinTolerance ==
    (version = "v3" /\ ReportsExist) =>
        /\ pc # "exit_err"
        /\ pc # "done" => ENABLED Next
        /\ EnergyWritten =>
            \A t \in Tech :
                runs[t].store # None =>
                    LET d == Val(runs[t].store)
                        note == RowOf(t).notes
                        within == -2 <= Diff(d) /\ Diff(d) <= 2
                    IN  /\ (note = NoteOk) <=> within
                        /\ ~within =>
                             (note.text = "warn_A-M!=RH+WH" /\ note.diff = Diff(d))

C8_Witness ==
    /\ version = "v3" /\ pc = "done"
    /\ runs["SRAM"].store # None
    /\ Diff(Val(runs["SRAM"].store)) = 3
    /\ RowOf("SRAM").notes.text = "warn_A-M!=RH+WH"
    /\ RowOf("SRAM").notes.diff = 3

\* C9: the data a load_data call returns for run id r is the data parsed
\* from r's results directory, never a cached result of another run.
C9_CacheKeyedByRun ==
    lastCall # None =>
        Val(lastRet).sniper.dir = _resolve_sniper_dir(Val(lastCall).runid)

\* C10: when total_hits > counted, min(gap, coh_upgrades) of the gap goes to
\* write hits first; whenever gap <= coh_upgrades the read hits stay the raw
\* read hits, the write hits are the raw write hits + gap, and the reported
\* gap is total_hits - counted (Scenario A gives 700, 200, 50).
C10_UpgradesAbsorbGap ==
    (rIn # None /\ rOut # None) =>
        LET d == Val(rIn)
            out == Val(rOut)
            gap == TotalHits(d) - Counted(d)
            first == IF gap <= d.coh_upgrades THEN gap ELSE d.coh_upgrades
        IN  /\ gap > 0 =>
                /\ out[3] = gap
                /\ out[2] >= d.WH + first
                /\ gap <= d.coh_upgrades => (out[1] = d.RH /\ out[2] = d.WH + gap)
            /\ d = ScenarioA => out = <<700, 200, 50>>

C10_Witness ==
    /\ rIn = Some(ScenarioA)
    /\ rOut = Some(<<700, 200, 50>>)

C12_ClampedAtTotal ==
    (rIn # None /\ rOut # None) =>
        LET d == Val(rIn)
            out == Val(rOut)
        IN  Counted(d) >= TotalHits(d) =>
                /\ out[3] = 0
                /\ out[1] = d.RH
                /\ out[1] + out[2] = TotalHits(d)

\* The record the store reader returned, and the rows it read.
StoreRead == dbOut # None /\ Val(dbOut) # None
StoreRec == Val(Val(dbOut))

\* C13: every count read_llc_exact_from_db returns is a non-negative
\* integer, for every store content, also when a roi-begin value exceeds the
\* matching roi-end value.
C13_CountsNonNegative ==
    StoreRead => \A f \in DOMAIN StoreRec : StoreRec[f] >= 0

\* The metrics summed into each field from the object named "L3", and the
\* metric summed into each field from every object named like 'L3%'.
L3Fields ==
    [A_db |-> {"loads", "stores"}, M_db |-> {"load-misses", "store-misses"},
     RH_local |-> {"l3_read_hits"}, WH_local |-> {"l3_write_hits"},
     WB |-> {"l3_writebacks"}, EV |-> {"l3_evictions"},
     M_custom |-> {"l3_misses"}, coh_upgrades |-> {"coherency-upgrades"},
     hits_prefetch |-> {"hits-prefetch"}, loads_prefetch |-> {"loads-prefetch"},
     stores_prefetch |-> {"stores-prefetch"}, prefetches |-> {"prefetches"}]
LikeFields == [RH |-> {"l3_read_hits"}, WH |-> {"l3_write_hits"}]

\* The rows of a field, and the plain sum of the values of a set of rows.
RowsOfField(f) ==
    IF f \in DOMAIN L3Fields
    THEN { r \in Val(dbFile) : r.objectname = "L3" /\ r.metricname \in L3Fields[f] }
    ELSE { r \in Val(dbFile) :
             r.objectname \in {"L3", "L3.next_read"} /\ r.metricname \in LikeFields[f] }
RECURSIVE SumValues(_)
SumValues(S) ==
    IF S = {} THEN 0
    ELSE LET r == CHOOSE x \in S : TRUE IN r.value + SumValues(S \ {r})
EndSum(f) == SumValues({ r \in RowsOfField(f) : r.prefixname = "roi-end" })
BeginSum(f) == SumValues({ r \in RowsOfField(f) : r.prefixname = "roi-begin" })

\* C14: each metric's field is the sum of the roi-end values minus the sum
\* of the roi-begin values of the matching rows, hence the roi-end sum
\* itself when no roi-begin row matches; rows with any other prefix
\* contribute nothing.
C14_RoiDeltaSums ==
    StoreRead =>
        \A f \in DOMAIN L3Fields \cup DOMAIN LikeFields :
            /\ StoreRec[f] = EndSum(f) - BeginSum(f)
            /\ ({ r \in RowsOfField(f) : r.prefixname = "roi-begin" } = {})
                   => StoreRec[f] = EndSum(f)

C14_Witness ==
    /\ StoreRead
    /\ Val(dbFile) =
          { [prefixname |-> "roi-end", objectname |-> "L3",
             metricname |-> "loads", value |-> MaxVal],
            [prefixname |-> "roi-begin", objectname |-> "L3",
             metricname |-> "stores", value |-> 1] }
    /\ StoreRec.A_db = MaxVal - 1

\* C15: in the record returned, RH = RH_local + RH_remote and WH = WH_local
\* + WH_remote for every store content, and the accesses and misses count
\* rows of the object named exactly "L3" only.
C15_HitsAreLocalPlusRemote ==
    StoreRead =>
        /\ StoreRec.RH = StoreRec.RH_local + StoreRec.RH_remote
        /\ StoreRec.WH = StoreRec.WH_local + StoreRec.WH_remote
        /\ StoreRec.A_db = EndSum("A_db") - BeginSum("A_db")
        /\ StoreRec.M_db = EndSum("M_db") - BeginSum("M_db")

\* A configuration file exists and defines all four keys.
Usable(n) == cFiles[n] # None /\ Complete(Val(cFiles[n]))

\* C16: the constants are those of the first of sim.cfg, sim.info, sim.inf
\* that exists and defines all four keys; a later file is used only if every
\* earlier one is absent or incomplete, and the technology defaults only if
\* none of the three is complete.
C16_FirstCompleteFileWins ==
    cOut # None =>
        LET order == <<"sim.cfg", "sim.info", "sim.inf">>
        IN  /\ \A i \in 1..3 :
                 (Usable(order[i]) /\ \A j \in 1..(i - 1) : ~Usable(order[j]))
                     => FromFile(Val(cOut), cFiles[order[i]])
            /\ (\A i \in 1..3 : ~Usable(order[i])) => Val(cOut) = Default(cTech)

C16_Witness ==
    /\ cOut # None
    /\ cFiles["sim.cfg"] # None /\ ~Usable("sim.cfg")
    /\ Usable("sim.info") /\ Usable("sim.inf")
    /\ FromFile(Val(cOut), cFiles["sim.info"])
    /\ ~FromFile(Val(cOut), cFiles["sim.inf"])

\* The leakage energy of a call: P_leak times the elapsed time, 0 when the
\* time is unknown.
LeakOf(c, T) == IF T = None THEN 0 ELSE c.P_leak * Val(T)

\* C17: energy_bounds computes hits = max(acc - mis, 0), dyn_low = E_hit *
\* hits + E_miss * mis, dyn_high = E_write * hits + E_miss * mis, and each
\* total bound is the matching dynamic energy plus the leakage energy; the
\* SRAM defaults with acc = 1000, mis = 100 give 509.6 nJ and 484.4 nJ.
C17_BoundsFormula ==
    (eIn.op = "bounds" /\ eOut # None) =>
        LET c == eIn.c
            out == Val(eOut)
            hits == IF eIn.acc - eIn.mis > 0 THEN eIn.acc - eIn.mis ELSE 0
        IN  /\ out.dyn_lo = c.E_hit * hits + c.E_miss * eIn.mis
            /\ out.dyn_hi = c.E_write * hits + c.E_miss * eIn.mis
            /\ out.E_lo = out.dyn_lo + out.eleak
            /\ out.E_hi = out.dyn_hi + out.eleak
            /\ (c = SRAM_DEFAULT /\ eIn.acc = 1000 /\ eIn.mis = 100) =>
                   (out.dyn_lo = 509600 /\ out.dyn_hi = 484400)

C17_Witness ==
    /\ eIn.op = "bounds" /\ eOut # None
    /\ eIn.c = SRAM_DEFAULT /\ eIn.acc = 1000 /\ eIn.mis = 100
    /\ Val(eOut).dyn_lo = 509600 /\ Val(eOut).dyn_hi = 484400

C19_LeakageOrZero ==
    eOut # None =>
        LET out == Val(eOut)
            leak == IF eIn.T = None THEN 0 ELSE eIn.c.P_leak * Val(eIn.T)
        IN  /\ eIn.op = "bounds" =>
                 /\ out.eleak = leak
                 /\ out.E_lo - out.dyn_lo = leak
                 /\ out.E_hi - out.dyn_hi = leak
            /\ eIn.op = "exact" => out.E - out.dyn = leak

C19_Witness ==
    /\ eIn.op = "bounds" /\ eOut # None
    /\ eIn.T = None /\ eIn.acc = EnCount /\ eIn.mis = 1
    /\ Val(eOut).eleak = 0 /\ Val(eOut).E_lo = Val(eOut).dyn_lo
    /\ Val(eOut).E_lo > 0

\* C20: ed2p(E, T) is E * T^2 when both are known and not-a-number when E
\* or T is unknown; the bound ED2P of a run whose elapsed time is missing is
\* unknown although its energy bounds are numbers.
C20_Ed2pOrUnknown ==
    eEd # None =>
        /\ eIn.op = "ed2p" =>
             IF eIn.E = None \/ eIn.T = None THEN Val(eEd) = None
             ELSE Val(eEd) = Some(Val(eIn.E) * Val(eIn.T) * Val(eIn.T))
        /\ (eIn.op = "bounds" /\ eIn.T = None) =>
             /\ Val(eEd) = <<None, None>>
             /\ Val(eOut).E_lo >= 0 /\ Val(eOut).E_hi >= 0

C20_Witness ==
    /\ eEd # None /\ eIn.op = "bounds" /\ eIn.T = None
    /\ Val(eEd) = <<None, None>>
    /\ Val(eOut).E_lo > 0

C27_ExactWithinBounds ==
    (version = "v3" /\ loc # None) =>
        \A t \in Tech :
            LET run == runs[t]
                l == Val(loc)[t]
                lo == IF Val(l.E_lo) <= Val(l.E_hi) THEN Val(l.E_lo) ELSE Val(l.E_hi)
                hi == IF Val(l.E_lo) <= Val(l.E_hi) THEN Val(l.E_hi) ELSE Val(l.E_lo)
            IN  (/\ run.store # None
                 /\ Val(run.report).l3_acc = Some(Val(run.store).A_db)
                 /\ Val(run.report).l3_miss = Some(Val(run.store).M_db))
                    => (lo <= Val(l.E_exact) /\ Val(l.E_exact) <= hi)

\* The dynamic bounds, to the whole nJ printed, of counts acc and mis under
\* the constants c.
DynPrinted(c, acc, mis) ==
    LET hits == IF acc - mis > 0 THEN acc - mis ELSE 0
    IN  [lo |-> Num(Round(c.E_hit * hits + c.E_miss * mis, 1000)),
         hi |-> Num(Round(c.E_write * hits + c.E_miss * mis, 1000))]

\* C29 as stated: in every row energy_ed2p_v3.main writes, the dynamic
\* bounds are those of the access and miss counts shown in the same row
\* (l3_accesses, l3_misses_db), whether or not the store is present.
C29_DynMatchesShownCounts ==
    (version = "v3" /\ EnergyWritten) =>
        \A t \in Tech :
            LET row == RowOf(t)
                d == DynPrinted(Val(loc)[t].consts, row.l3_accesses.v,
                                row.l3_misses_db.v)
            IN  row.dyn_lower_nJ = d.lo /\ row.dyn_upper_nJ = d.hi

\* C29 amended: the dynamic bounds of every row are those of the report's
\* coarse counts (0 for a count the report lacks), printed to the whole nJ;
\* the row shows these counts only when the store is absent, and the
\* store's A_db and M_db otherwise.
C29_DynMatchesReportCounts ==
    (version = "v3" /\ EnergyWritten) =>
        \A t \in Tech :
            LET row == RowOf(t)
                rep == Val(runs[t].report)
                st == runs[t].store
                acc == IF rep.l3_acc = None THEN 0 ELSE Val(rep.l3_acc)
                mis == IF rep.l3_miss = None THEN 0 ELSE Val(rep.l3_miss)
                d == DynPrinted(Val(loc)[t].consts, acc, mis)
            IN  /\ row.dyn_lower_nJ = d.lo /\ row.dyn_upper_nJ = d.hi
                /\ st = None =>
                     (row.l3_accesses = Num(acc) /\ row.l3_misses_db = Num(mis))
                /\ st # None =>
                     /\ row.l3_accesses = Num(Val(st).A_db)
                     /\ row.l3_misses_db = Num(Val(st).M_db)

C29_Witness ==
    /\ version = "v3" /\ pc = "done"
    /\ runs["SRAM"].store # None
    /\ Val(runs["SRAM"].report).l3_acc = Some(BigCount)
    /\ RowOf("SRAM").l3_accesses = Num(MainAcc)
    /\ RowOf("SRAM").dyn_lower_nJ.v > BigCount \div 2

C30_HeaderOnceRowsInOrder ==
    /\ [](csvFile # None =>
            /\ Val(csvFile)[1] = HEADER
            /\ \A i \in 2..Len(Val(csvFile)) : Val(csvFile)[i] # HEADER)
    /\ [][LET call == Val(lastWrite')
           IN  IF call.overwrite \/ csvFile = None
               THEN Val(csvFile') = <<HEADER>> \o call.rows
               ELSE Val(csvFile') = Val(csvFile) \o call.rows]_vars

C30_Witness ==
    /\ lastWrite # None /\ ~Val(lastWrite).overwrite
    /\ csvFile = Some(<<HEADER, "SRAM", "JanS", "JanS", "SRAM">>)

\* Whether sim.cfg configures both costs of the local pair, of the forwarded
\* pair.
LocalPair == hCfg.rd_llc # None /\ hCfg.wr_llc # None
ForwardedPair == hCfg.rd_next # None /\ hCfg.wr_next # None

\* C22: parse_llc_hit_cycles returns the local pair when only the local pair
\* is fully configured, the forwarded pair when only the forwarded pair is,
\* and (None, None) when neither is; an unconfigured cost is never returned
\* as 0 or as a default.
C22_OnePairUsedUniformly ==
    hOut # None =>
        LET out == Val(hOut)
        IN  /\ (LocalPair /\ ~ForwardedPair) => out = <<hCfg.rd_llc, hCfg.wr_llc>>
            /\ (ForwardedPair /\ ~LocalPair) => out = <<hCfg.rd_next, hCfg.wr_next>>
            /\ (~LocalPair /\ ~ForwardedPair) => out = <<None, None>>
            /\ \A i \in 1..2 :
                 out[i] # None => (LocalPair \/ ForwardedPair)

C22_Witness ==
    /\ hOut # None
    /\ hCfg.rd_llc # None /\ hCfg.wr_llc = None /\ ForwardedPair
    /\ Val(hOut) = <<Some(MaxCycles), Some(MaxCycles + 1)>>

\* C23: with both pairs configured and the store present, the read cost
\* returned is round((RH_local * rd_llc + RH_remote * rd_next) / (RH_local +
\* RH_remote)) for the RH_local, RH_remote of read_llc_exact_from_db, the
\* local cost when that hit total is 0; likewise for writes.
C23_HitWeightedBlend ==
    (hOut # None /\ LocalPair /\ ForwardedPair /\ dbFile # None) =>
        LET rec == Val(read_llc_exact_from_db(dbFile))
            out == Val(hOut)
            rd_total == rec.RH_local + rec.RH_remote
            wr_total == rec.WH_local + rec.WH_remote
        IN  /\ out[1] = Some(IF rd_total = 0 THEN Val(hCfg.rd_llc)
                             ELSE RoundDiv(rec.RH_local * Val(hCfg.rd_llc)
                                           + rec.RH_remote * Val(hCfg.rd_next),
                                           rd_total))
            /\ out[2] = Some(IF wr_total = 0 THEN Val(hCfg.wr_llc)
                             ELSE RoundDiv(rec.WH_local * Val(hCfg.wr_llc)
                                           + rec.WH_remote * Val(hCfg.wr_next),
                                           wr_total))

C23_Witness ==
    /\ hOut # None /\ LocalPair /\ ForwardedPair /\ dbFile # None
    /\ Val(read_llc_exact_from_db(dbFile)).RH_local = MaxVal
    /\ Val(read_llc_exact_from_db(dbFile)).RH_remote = 1
    /\ Val(hOut)[1] = Some(2)
    /\ Val(hOut)[2] = hCfg.wr_llc

\* The run directory and the summary.csv record of technology t, and the
\* hit counts main uses for it.
SummaryRow(t) == Val(summaryCsv)[IF t = "SRAM" THEN 1 ELSE 2]
HitsUsed(t) ==
    IF runs[t].store # None THEN reconcile_hits_for_energy(runs[t].store)
    ELSE <<0, 0, 0>>
LatencyKnown(t) ==
    LET parsed == parse_simout_full(runs[t].report)
    IN  /\ runs[t].hit[1] # None /\ runs[t].hit[2] # None
        /\ parsed.cycles # None /\ parsed.time_ns # None
        /\ to_int_or_zero(parsed.cycles) > 0

\* C21: the avg_l3_hit_ns column energy_ed2p_v3.main writes is
\* (RH_use*rd_cycles + WH_use*wr_cycles) * period / (RH_use + WH_use) on the
\* reconciled hit counts, printed with six decimals, whenever the costs, the
\* period and a hit are there; it is the empty field, never 0, when
\* RH_use + WH_use = 0, and it is never filled from missing inputs.
C21_AvgHitLatency ==
    (version = "v3" /\ pc = "done") =>
        \A t \in Tech :
            LET parsed == parse_simout_full(runs[t].report)
                RH_use == HitsUsed(t)[1]
                WH_use == HitsUsed(t)[2]
                field == SummaryRow(t).avg_l3_hit_ns
            IN  /\ SummaryRow(t).config = t
                /\ RH_use + WH_use = 0 => field = Empty
                /\ field # Empty => LatencyKnown(t)
                /\ (LatencyKnown(t) /\ RH_use + WH_use > 0) =>
                       field = Num(Round((RH_use * Val(runs[t].hit[1])
                                            + WH_use * Val(runs[t].hit[2]))
                                           * Val(parsed.time_ns) * PER_MICRO,
                                         (RH_use + WH_use) * Val(parsed.cycles)))

\* A v3 record whose latency is printed after the reconciliation changed the
\* hit mix, and one left empty because the store holds no hit.
C21_Witness ==
    /\ version = "v3" /\ pc = "done"
    /\ runs["SRAM"].store # None
    /\ SummaryRow("SRAM").avg_l3_hit_ns # Empty
    /\ HitsUsed("SRAM")[3] > 0
    /\ HitsUsed("SRAM")[1] * Val(runs["SRAM"].store).WH
         # HitsUsed("SRAM")[2] * Val(runs["SRAM"].store).RH

EnergyRecord(t) == Val(energyCsv)[IF t = "SRAM" THEN 1 ELSE 2]
OtherTech(t) == IF t = "SRAM" THEN "JanS" ELSE "SRAM"

C25_L3FieldsFromL3Block ==
    simParsed # None =>
        LET start == L3Header(simOut)
        IN  Val(simParsed) =
                IF start > Len(simOut) THEN NoL3
                ELSE FieldsBetween(simOut, start, FirstAfter(simOut, start, Headers))
====
